---- MODULE Spec2Model ----
(***************************************************************************)
(* Model of the lowRISC Ethernet driver sys/dev/lowrisc/ether/if_lre.c:    *)
(* the discard loop of lre_attach, the receive interrupt filter            *)
(* lre_rx_intr, the interrupt thread lre_rx_thread, lre_init, the          *)
(* lre_ioctl configuration paths, lre_transmit and the polling callout     *)
(* net_timeout, running against the device's register window.  The driver  *)
(* takes no lock, so every register access of a handler is a step of its   *)
(* own wherever another context can observe the difference.                *)
(***************************************************************************)
EXTENDS Integers, Sequences, FiniteSets, TLC

(* ------------------------------------------------------------------ *)
(* Bounds of the model                                                  *)
(* ------------------------------------------------------------------ *)

\* frames the hardware receives in one behaviour of the receive engine
MaxFrames == 2

\* the same, where the configuration paths run too
CfgFrames == 1

\* the same, where progress is checked
LiveFrames == 2

\* slots the boot loader left completed when lre_attach runs
MaxBacklog == 3

\* frames the hardware receives after lre_attach has been entered
AttachFrames == 1

\* value of the RSR slot field when lre_attach is entered
AttachSlots == {0, 7, 13, 15}

\* failed m_getcl() calls in one behaviour
MaxDrops == 1

\* lre_transmit calls in one behaviour
MaxTx == 2

\* the longest packet handed to lre_transmit, in bytes: up to three words
MaxLen == 17

\* bytes in the first mbuf of a packet that is held in a chain of mbufs
HeadBytes == 14

\* contents a packet is filled with
Patterns == {1, 2}

\* values of a byte of memory that lies outside the data of an mbuf
StrayBytes == {0, 255}

\* value of the RSR slot field when the interrupt handler is installed:
\* every slot position is reached, from a low and from a high slot number
RxStartSlots == {0, 2, 4, 6, 9, 11, 13, 15}

\* the same, where the configuration paths run too
StartSlots == {6, 15}

\* values the receive-bad-flags register (RBAD) is read as
ErrValues == {0, 1, 8, 128, 2048, 16384}

\* values a receive-length register (RPLR) is read as
LenRegValues == {3, 2050, 2051, 4160}

(* ------------------------------------------------------------------ *)
(* Register layout (dev/lowrisc/ether/lre_reg.h) and kernel constants  *)
(* ------------------------------------------------------------------ *)

RSR_RECV_FIRST_MASK == 15
RSR_RECV_DONE_MASK == 4096
RPLR_LENGTH_MASK == 4095
MCLBYTES == 2048
ETHER_ALIGN == 2
\* the slot-error pattern of line 501: 0x101
ERR_PATTERN == 257
\* receive buffers of the device: the code addresses them with buf&7
RingSlots == 8
\* the MAC-address bits of MACHI attach reads at line 197
BootMacHi == 4660

(* ------------------------------------------------------------------ *)
(* Fixed-width arithmetic                                               *)
(* ------------------------------------------------------------------ *)

RECURSIVE BitAnd(_, _)
BitAnd(a, b) ==
    IF a = 0 \/ b = 0 THEN 0
    ELSE (a % 2) * (b % 2) + 2 * BitAnd(a \div 2, b \div 2)

RECURSIVE BitOr(_, _)
BitOr(a, b) ==
    IF a = 0 THEN b
    ELSE IF b = 0 THEN a
    ELSE (IF a % 2 = 1 \/ b % 2 = 1 THEN 1 ELSE 0)
         + 2 * BitOr(a \div 2, b \div 2)

RECURSIVE Pow2(_)
Pow2(n) == IF n = 0 THEN 1 ELSE 2 * Pow2(n - 1)

\* a << n for the small operands of line 501 (no bit reaches bit 31)
Shl(a, n) == a * Pow2(n)

\* A uint32_t is kept as <<high 16 bits, low 16 bits>>.
U32(n) == <<n \div 65536, n % 65536>>

\* x - k in uint32_t arithmetic, 0 <= k < 65536
Sub32(x, k) ==
    IF x[2] >= k THEN <<x[1], x[2] - k>>
    ELSE <<(x[1] + 65535) % 65536, x[2] + 65536 - k>>

\* x > n with x read as an int32_t: a value with bit 31 set is negative
Gt32_Signed(x, n) == x[1] < 32768 /\ (x[1] > 0 \/ x[2] > n)

\* x > n for a uint32_t x and 0 <= n < 65536
Gt32(x, n) == x[1] > 0 \/ x[2] > n

(* ------------------------------------------------------------------ *)
(* State                                                                *)
(* ------------------------------------------------------------------ *)

VARIABLES
    net_poll,   \* LOWRISC_NET_POLL is defined
    hw_first,   \* RSR slot field: the slot software consumes next
    hw_next,    \* the slot the hardware fills next
    hw_seq,     \* frames received by the hardware so far
    hw_max,     \* frames the wire carries in this behaviour
    ring,       \* receive-buffer window: slot position -> frame held
    machi,      \* MACHI register: [irq_en, allpkts, mac]
    running,    \* IFF_DRV_RUNNING in if_drv_flags
    if_flags,   \* ifp->if_flags: [up, promisc]
    sc_flags,   \* sc->sc_flags:  [up, promisc]
    sc_cap,     \* sc->sc_cap & IFCAP_RXCSUM
    ierrors,    \* IFCOUNTER_IERRORS
    iqdrops,    \* IFCOUNTER_IQDROPS
    ipackets,   \* IFCOUNTER_IPACKETS
    i_pc,       \* lre_rx_intr: position
    i_tmp,      \* lre_rx_intr: the value GETREG(MACHI) returned
    i_acc,      \* lre_rx_intr: register accesses of this invocation
    sched,      \* the interrupt thread has been asked to run
    t_pc,       \* lre_rx_thread: position
    status,     \* lre_rx_thread: status
    buf,        \* lre_rx_thread: buf
    errs,       \* lre_rx_thread: errs
    length,     \* lre_rx_thread: length (uint32_t)
    hwlen,      \* the masked value line 496 read from RPLR in this iteration
    trim,       \* line 497 subtracted the checksum trailer in this iteration
    m,          \* lre_rx_thread: the mbuf: NoMbuf, 0 (empty cluster) or the frame copied
    t_tmp,      \* lre_rx_thread: the value GETREG(MACHI) returned
    c_pc,       \* configuration context: position
    c_ret,      \* configuration context: where lre_init returns to
    c_tmp,      \* configuration context: the value GETREG(MACHI) returned
    delivered,  \* frames handed to if_input, in order
    rsr_nw,     \* writes to RSR so far
    rsr_lastw,  \* the last value written to RSR
    adv,        \* writes to RSR since lre_rx_thread last read RSR
    failed,     \* the last lre_rx_thread activation ended on m == NULL
    nalloc,     \* successful m_getcl() calls
    cycle,      \* lre_rx_intr masked and the thread it asked for is not done
    stopped,    \* IFF_DRV_RUNNING was last cleared by the stop path
    x_pc,       \* lre_transmit: position
    x_m,        \* lre_transmit: the mbuf m
    x_i,        \* lre_transmit: i
    x_words,    \* lre_transmit: words
    tx_log,     \* register writes of the last lre_transmit call, in order
    opackets,   \* IFCOUNTER_OPACKETS
    obytes,     \* IFCOUNTER_OBYTES
    x_freed,    \* m_freem calls of lre_transmit
    x_calls,    \* lre_transmit calls
    rx_m,       \* the mbuf a looped-back frame is received into
    p_pc,       \* net_timeout: position
    p_saw,      \* net_timeout: the RSR value its lre_rx_intr call read
    a_pc,       \* lre_attach: position
    a_status,   \* lre_attach: status
    g_pre,      \* interface state when a double start was requested
    g_one       \* interface state when its first lre_init returned

hwvars == <<hw_first, hw_next, hw_seq, hw_max, ring>>
ifvars == <<running, if_flags, sc_flags, sc_cap>>
ctrvars == <<ierrors, iqdrops, ipackets>>
ivars == <<i_pc, i_tmp, i_acc>>
tvars == <<t_pc, status, buf, errs, length, hwlen, trim, m, t_tmp>>
cvars == <<c_pc, c_ret, c_tmp>>
logvars == <<delivered, rsr_nw, rsr_lastw, adv, failed, nalloc>>
txvars == <<x_pc, x_m, x_i, x_words, tx_log, opackets, obytes,
            x_freed, x_calls>>
pvars == <<p_pc, p_saw>>
avars == <<a_pc, a_status>>
gvars == <<g_pre, g_one>>
\* state of the handlers that stand apart from the receive engine
othervars == <<txvars, rx_m, pvars, avars>>
\* what the receive, start and configuration handlers never touch
xvars == <<othervars, gvars>>

vars == <<net_poll, xvars, hwvars, machi, ifvars, ctrvars, ivars, sched, tvars,
          cvars, logvars, cycle, stopped>>

NoFlags == [up |-> FALSE, promisc |-> FALSE]
\* a temporary that holds no register value (before its read, after its use)
NoReg == [irq_en |-> FALSE, allpkts |-> FALSE, mac |-> 0]
\* m == NULL
NoMbuf == 0 - 1

(* ------------------------------------------------------------------ *)
(* Register interface                                                   *)
(* ------------------------------------------------------------------ *)

\* slots completed by the hardware and not yet consumed
Pending == (hw_next - hw_first + 16) % 16

\* GETREG(sc, RSR_OFFSET)
ReadRSR == hw_first + (IF hw_next # hw_first THEN RSR_RECV_DONE_MASK ELSE 0)

\* the slot field of the device after SETREG(sc, RSR_OFFSET, v)
WriteRSR(v) == v % 16

RecvDone(st) == BitAnd(st, RSR_RECV_DONE_MASK) # 0

\* MACHI_IRQ_EN | v
OrIrqEn(v) == [v EXCEPT !.irq_en = TRUE]

\* (~MACHI_IRQ_EN) & v
AndNotIrqEn(v) == [v EXCEPT !.irq_en = FALSE]

\* MACHI_ALLPKTS_MASK | v
OrAllPkts(v) == [v EXCEPT !.allpkts = TRUE]

\* (~MACHI_ALLPKTS_MASK) & v
AndNotAllPkts(v) == [v EXCEPT !.allpkts = FALSE]

(* ------------------------------------------------------------------ *)
(* Initial state                                                        *)
(* ------------------------------------------------------------------ *)

\* an mbuf that holds no packet
NoPkt == [len |-> 0, mlen |-> 0, pat |-> 0]

\* nothing received back yet
NoRx == [of |-> 0, ok |-> FALSE, len |-> 0, data |-> <<>>]

\* no interface state recorded
NoSnap == [running |-> FALSE, machi |-> NoReg, sc_cap |-> FALSE]

\* the softc and the ifnet as lre_attach leaves them (M_ZERO softc, if_alloc),
\* and every handler at rest
DriverAtRest ==
    /\ machi \in [irq_en : BOOLEAN, allpkts : {FALSE}, mac : {BootMacHi}]
    /\ running = FALSE
    /\ if_flags = NoFlags
    /\ sc_flags = NoFlags
    /\ sc_cap = FALSE
    /\ ierrors = 0 /\ iqdrops = 0 /\ ipackets = 0
    /\ i_pc = "idle" /\ i_tmp = NoReg /\ i_acc = <<>>
    /\ sched = FALSE
    /\ t_pc = "idle" /\ status = 0 /\ buf = 0 /\ errs = 0
    /\ length = U32(0) /\ hwlen = 0 /\ trim = FALSE
    /\ m = NoMbuf /\ t_tmp = NoReg
    /\ c_pc = "idle" /\ c_ret = "idle" /\ c_tmp = NoReg
    /\ delivered = <<>>
    /\ rsr_nw = 0 /\ rsr_lastw = 0 /\ adv = 0 /\ failed = FALSE /\ nalloc = 0
    /\ cycle = FALSE
    /\ stopped = FALSE
    /\ x_pc = "idle" /\ x_m = NoPkt /\ x_i = 0 /\ x_words = 0
    /\ tx_log = <<>> /\ opackets = 0 /\ obytes = 0
    /\ x_freed = 0 /\ x_calls = 0
    /\ rx_m = NoRx
    /\ p_pc = "idle" /\ p_saw = 0
    /\ g_pre = NoSnap /\ g_one = NoSnap

\* attach has returned: its discard loop left no completed slot
AfterAttach(poll, slots, frames) ==
    /\ net_poll = poll
    /\ hw_max = frames
    /\ hw_first \in slots
    /\ hw_next = hw_first
    /\ hw_seq = 0
    /\ ring = [s \in 0..(RingSlots - 1) |-> 0]
    /\ a_pc = "done" /\ a_status = 0
    /\ DriverAtRest

\* the same for a build without LOWRISC_NET_POLL
InitFrom(slots, frames) == AfterAttach(FALSE, slots, frames)

(* ------------------------------------------------------------------ *)
(* The device                                                           *)
(* ------------------------------------------------------------------ *)

\* The hardware completes a frame into the slot after the last one it filled.
HwReceive ==
    /\ hw_seq < hw_max
    /\ Pending < RingSlots
    /\ hw_seq' = hw_seq + 1
    /\ ring' = [ring EXCEPT ![hw_next % RingSlots] = hw_seq + 1]
    /\ hw_next' = (hw_next + 1) % 16
    /\ UNCHANGED <<net_poll, xvars, hw_first, hw_max, machi, ifvars, ctrvars, ivars,
                   sched, tvars, cvars, logvars, cycle, stopped>>

\* the device raises its receive interrupt
IrqLine == machi.irq_en /\ hw_next # hw_first

(* ------------------------------------------------------------------ *)
(* lre_attach: the discard loop                                         *)
(* ------------------------------------------------------------------ *)

\* lre_attach is entered with k slots completed under the boot loader
InitAttach ==
    /\ net_poll = FALSE
    /\ hw_first \in AttachSlots
    /\ \E k \in 0..MaxBacklog :
          /\ hw_next = (hw_first + k) % 16
          /\ hw_seq = k
          /\ hw_max = k + AttachFrames
          /\ ring = [s \in 0..(RingSlots - 1) |->
                        IF (s - hw_first + 16) % RingSlots < k
                           THEN ((s - hw_first + 16) % RingSlots) + 1
                           ELSE 0]
    /\ a_pc = "start" /\ a_status = 0
    /\ DriverAtRest

\* line 202: status = GETREG(sc, RSR_OFFSET)
AttachReadStatus ==
    /\ a_pc = "start"
    /\ a_status' = ReadRSR
    /\ a_pc' = "loop"
    /\ UNCHANGED <<net_poll, machi, ifvars, ctrvars, ivars, sched, tvars,
                   cvars, cycle, stopped, txvars, rx_m, pvars, gvars, hwvars,
                   logvars>>

\* AttachDiscard writing the slot it read back: SETREG(sc, RSR_OFFSET, buf)
AttachDiscard_Raw ==
    /\ a_pc = "loop"
    /\ RecvDone(a_status)
    /\ hw_first' = WriteRSR(BitAnd(a_status, RSR_RECV_FIRST_MASK))
    /\ rsr_nw' = rsr_nw + 1
    /\ rsr_lastw' = BitAnd(a_status, RSR_RECV_FIRST_MASK)
    /\ a_pc' = "reread"
    /\ UNCHANGED <<net_poll, machi, ifvars, ctrvars, ivars, sched, tvars,
                   cvars, cycle, stopped, txvars, rx_m, pvars, gvars, a_status,
                   hw_next, hw_seq, hw_max, ring, delivered, adv, failed,
                   nalloc>>

\* lines 203-205 with the done bit set: SETREG(sc, RSR_OFFSET, buf+1)
AttachDiscard ==
    /\ a_pc = "loop"
    /\ RecvDone(a_status)
    /\ hw_first' = WriteRSR(BitAnd(a_status, RSR_RECV_FIRST_MASK) + 1)
    /\ rsr_nw' = rsr_nw + 1
    /\ rsr_lastw' = BitAnd(a_status, RSR_RECV_FIRST_MASK) + 1
    /\ a_pc' = "reread"
    /\ UNCHANGED <<net_poll, machi, ifvars, ctrvars, ivars, sched, tvars,
                   cvars, cycle, stopped, txvars, rx_m, pvars, gvars, a_status,
                   hw_next, hw_seq, hw_max, ring, delivered, adv, failed,
                   nalloc>>

\* line 206: status = GETREG(sc, RSR_OFFSET)
AttachReread ==
    /\ a_pc = "reread"
    /\ a_status' = ReadRSR
    /\ a_pc' = "loop"
    /\ UNCHANGED <<net_poll, machi, ifvars, ctrvars, ivars, sched, tvars,
                   cvars, cycle, stopped, txvars, rx_m, pvars, gvars, hwvars,
                   logvars>>

\* line 203 with the done bit clear, then lines 209-210: bus_setup_intr
AttachSetupIntr ==
    /\ a_pc = "loop"
    /\ ~RecvDone(a_status)
    /\ a_status' = 0
    /\ a_pc' = "done"
    /\ UNCHANGED <<net_poll, machi, ifvars, ctrvars, ivars, sched, tvars,
                   cvars, cycle, stopped, txvars, rx_m, pvars, gvars, hwvars,
                   logvars>>

lre_attach ==
    AttachReadStatus \/ AttachDiscard \/ AttachReread \/ AttachSetupIntr

(* ------------------------------------------------------------------ *)
(* lre_rx_intr                                                          *)
(* ------------------------------------------------------------------ *)

\* IntrEnter returning FILTER_SCHEDULE_THREAD without the mask of line 471
IntrEnter_SignalFirst ==
    /\ a_pc = "done"
    /\ i_pc = "idle"
    /\ IrqLine
    /\ i_acc' = <<"R:RSR">>
    /\ i_pc' = "return"
    /\ UNCHANGED <<net_poll, xvars, hwvars, machi, ifvars, ctrvars, i_tmp, sched,
                   tvars, cvars, logvars, cycle, stopped>>

\* the handler installed at lines 209-210 is entered;
\* line 468: status = GETREG(sc, RSR_OFFSET)
IntrEnter ==
    /\ a_pc = "done"
    /\ i_pc = "idle"
    /\ IrqLine
    /\ i_acc' = <<"R:RSR">>
    /\ i_pc' = IF net_poll THEN "return" ELSE "machi_r"
    /\ UNCHANGED <<net_poll, xvars, hwvars, machi, ifvars, ctrvars, i_tmp, sched,
                   tvars, cvars, logvars, cycle, stopped>>

\* line 471, the read: GETREG(sc, MACHI_OFFSET)
IntrReadMachi ==
    /\ i_pc = "machi_r"
    /\ i_tmp' = machi
    /\ i_acc' = Append(i_acc, "R:MACHI")
    /\ i_pc' = "machi_w"
    /\ UNCHANGED <<net_poll, xvars, hwvars, machi, ifvars, ctrvars, sched, tvars,
                   cvars, logvars, cycle, stopped>>

\* line 471, the write: SETREG(sc, MACHI_OFFSET, (~MACHI_IRQ_EN) & ...)
IntrWriteMachi ==
    /\ i_pc = "machi_w"
    /\ machi' = AndNotIrqEn(i_tmp)
    /\ i_acc' = Append(i_acc, "W:MACHI")
    /\ i_tmp' = NoReg
    /\ i_pc' = "return"
    /\ cycle' = TRUE
    /\ UNCHANGED <<net_poll, xvars, hwvars, ifvars, ctrvars, sched, tvars, cvars,
                   logvars, stopped>>

\* line 473: return FILTER_SCHEDULE_THREAD
IntrReturn ==
    /\ i_pc = "return"
    /\ sched' = TRUE
    /\ i_pc' = "idle"
    /\ UNCHANGED <<net_poll, xvars, hwvars, machi, ifvars, ctrvars, i_tmp, i_acc,
                   tvars, cvars, logvars, cycle, stopped>>

Intr == IntrEnter \/ IntrReadMachi \/ IntrWriteMachi \/ IntrReturn

(* ------------------------------------------------------------------ *)
(* lre_rx_thread                                                        *)
(* ------------------------------------------------------------------ *)

\* Reject with the slot number shifted in unmasked: 0x101<<buf
Reject_NoMask(len, b, e) ==
    \/ Gt32(len, MCLBYTES - ETHER_ALIGN)
    \/ BitAnd(Shl(ERR_PATTERN, b), e) # 0

\* line 501: (length > MCLBYTES - ETHER_ALIGN) || ((0x101<<(buf&7)) & errs)
Reject(len, b, e) ==
    \/ Gt32(len, MCLBYTES - ETHER_ALIGN)
    \/ BitAnd(Shl(ERR_PATTERN, BitAnd(b, 7)), e) # 0

\* lines 496-497: the length of the frame in a slot whose RPLR reads as l
FrameLength(l, cap) ==
    IF cap THEN Sub32(U32(BitAnd(l, RPLR_LENGTH_MASK)), 4)
    ELSE U32(BitAnd(l, RPLR_LENGTH_MASK))

\* the interrupt thread's handler returns
ThreadDone == cycle' = (sched \/ i_pc = "return")

\* the thread is scheduled; line 482: status = GETREG(sc, RSR_OFFSET)
ThreadStart ==
    /\ t_pc = "idle"
    /\ sched
    /\ sched' = FALSE
    /\ status' = ReadRSR
    /\ adv' = 0
    /\ failed' = FALSE
    /\ t_pc' = "loop"
    /\ UNCHANGED <<net_poll, xvars, hwvars, machi, ifvars, ctrvars, ivars, buf, errs,
                   length, hwlen, trim, m, t_tmp, cvars, delivered, rsr_nw, rsr_lastw,
                   nalloc, cycle, stopped>>

\* line 484 with status & RSR_RECV_DONE_MASK set, then lines 494-497
ThreadLoopBody ==
    /\ t_pc = "loop"
    /\ RecvDone(status)
    /\ buf' = BitAnd(status, RSR_RECV_FIRST_MASK)
    /\ \E e \in ErrValues, l \in LenRegValues :
          /\ errs' = e
          /\ length' = FrameLength(l, sc_cap)
          /\ hwlen' = BitAnd(l, RPLR_LENGTH_MASK)
          /\ trim' = sc_cap
    /\ t_pc' = "validate"
    /\ UNCHANGED <<net_poll, xvars, hwvars, machi, ifvars, ctrvars, ivars, sched,
                   status, m, t_tmp, cvars, logvars, cycle, stopped>>

\* ThreadLoopExit returning without line 542
ThreadLoopExit_NoUnmask ==
    /\ t_pc = "loop"
    /\ ~RecvDone(status)
    /\ t_pc' = "idle"
    /\ ThreadDone
    /\ UNCHANGED <<net_poll, xvars, hwvars, machi, ifvars, ctrvars, ivars, sched,
                   status, buf, errs, length, hwlen, trim, m, t_tmp, cvars, logvars,
                   stopped>>

\* line 484 with the done bit clear: the loop is left
ThreadLoopExit ==
    /\ t_pc = "loop"
    /\ ~RecvDone(status)
    /\ IF net_poll
          THEN t_pc' = "idle" /\ ThreadDone
          ELSE t_pc' = "machi_r" /\ UNCHANGED cycle
    /\ UNCHANGED <<net_poll, xvars, hwvars, machi, ifvars, ctrvars, ivars, sched,
                   status, buf, errs, length, hwlen, trim, m, t_tmp, cvars, logvars,
                   stopped>>

\* lines 501-504: the test, and the error counter of a rejected frame
ThreadValidate ==
    /\ t_pc = "validate"
    /\ IF Reject(length, buf, errs)
          THEN ierrors' = ierrors + 1 /\ t_pc' = "discard"
          ELSE UNCHANGED ierrors /\ t_pc' = "alloc"
    /\ UNCHANGED <<net_poll, xvars, hwvars, machi, ifvars, iqdrops, ipackets, ivars,
                   sched, status, buf, errs, length, hwlen, trim, m, t_tmp, cvars, logvars,
                   cycle, stopped>>

\* AdvanceRing writing the slot it read back: SETREG(sc, RSR_OFFSET, buf)
AdvanceRing_Raw ==
    /\ hw_first' = WriteRSR(buf)
    /\ rsr_nw' = rsr_nw + 1
    /\ rsr_lastw' = buf
    /\ adv' = adv + 1

\* SETREG(sc, RSR_OFFSET, buf+1)
AdvanceRing ==
    /\ hw_first' = WriteRSR(buf + 1)
    /\ rsr_nw' = rsr_nw + 1
    /\ rsr_lastw' = buf + 1
    /\ adv' = adv + 1

\* ThreadDiscard without the write of line 505
ThreadDiscard_Stall ==
    /\ t_pc = "discard"
    /\ t_pc' = "discard_rd"
    /\ UNCHANGED <<net_poll, xvars, hwvars, machi, ifvars, ctrvars, ivars, sched,
                   status, buf, errs, length, hwlen, trim, m, t_tmp, cvars, logvars,
                   cycle, stopped>>

\* line 505
ThreadDiscard ==
    /\ t_pc = "discard"
    /\ AdvanceRing
    /\ t_pc' = "discard_rd"
    /\ UNCHANGED <<net_poll, xvars, hw_next, hw_seq, hw_max, ring, machi, ifvars,
                   ctrvars, ivars, sched, status, buf, errs, length, hwlen, trim, m, t_tmp, cvars,
                   delivered, failed, nalloc, cycle, stopped>>

\* status = GETREG(sc, RSR_OFFSET) at the end of an iteration, whose locals die
RereadStatus ==
    /\ status' = ReadRSR
    /\ adv' = 0
    /\ buf' = 0
    /\ errs' = 0
    /\ length' = U32(0)
    /\ hwlen' = 0
    /\ trim' = FALSE
    /\ t_pc' = "loop"

\* lines 506-507
ThreadDiscardReread ==
    /\ t_pc = "discard_rd"
    /\ RereadStatus
    /\ UNCHANGED <<net_poll, xvars, hwvars, machi, ifvars, ctrvars, ivars, sched, m,
                   t_tmp, cvars, delivered, rsr_nw, rsr_lastw, failed, nalloc,
                   cycle, stopped>>

\* line 510 returning a cluster
ThreadAllocOk ==
    /\ t_pc = "alloc"
    /\ m' = 0
    /\ nalloc' = nalloc + 1
    /\ t_pc' = "copy"
    /\ UNCHANGED <<net_poll, xvars, hwvars, machi, ifvars, ctrvars, ivars, sched,
                   status, buf, errs, length, hwlen, trim, t_tmp, cvars, delivered,
                   rsr_nw, rsr_lastw, adv, failed, cycle, stopped>>

\* ThreadAllocFail leaving the loop by break instead of return
ThreadAllocFail_Rearm ==
    /\ t_pc = "alloc"
    /\ iqdrops < MaxDrops
    /\ iqdrops' = iqdrops + 1
    /\ failed' = TRUE
    /\ buf' = 0
    /\ errs' = 0
    /\ length' = U32(0)
    /\ hwlen' = 0
    /\ trim' = FALSE
    /\ t_pc' = "machi_r"
    /\ UNCHANGED <<net_poll, xvars, hwvars, machi, ifvars, ierrors, ipackets, ivars,
                   sched, status, m, t_tmp, cvars, delivered, rsr_nw,
                   rsr_lastw, adv, nalloc, cycle, stopped>>

\* lines 510-515 with m == NULL
ThreadAllocFail ==
    /\ t_pc = "alloc"
    /\ iqdrops < MaxDrops
    /\ iqdrops' = iqdrops + 1
    /\ failed' = TRUE
    /\ buf' = 0
    /\ errs' = 0
    /\ length' = U32(0)
    /\ hwlen' = 0
    /\ trim' = FALSE
    /\ t_pc' = "idle"
    /\ ThreadDone
    /\ UNCHANGED <<net_poll, xvars, hwvars, machi, ifvars, ierrors, ipackets, ivars,
                   sched, status, m, t_tmp, cvars, delivered, rsr_nw,
                   rsr_lastw, adv, nalloc, stopped>>

\* lines 518-527: the words of slot buf&7 are copied into the cluster
ThreadCopy ==
    /\ t_pc = "copy"
    /\ m' = ring[BitAnd(buf, 7)]
    /\ t_pc' = "advance"
    /\ UNCHANGED <<net_poll, xvars, hwvars, machi, ifvars, ctrvars, ivars, sched,
                   status, buf, errs, length, hwlen, trim, t_tmp, cvars, logvars, cycle,
                   stopped>>

\* ThreadAdvance without the write of line 529
ThreadAdvance_Skip ==
    /\ t_pc = "advance"
    /\ t_pc' = "deliver"
    /\ UNCHANGED <<net_poll, xvars, hwvars, machi, ifvars, ctrvars, ivars, sched,
                   status, buf, errs, length, hwlen, trim, m, t_tmp, cvars, logvars,
                   cycle, stopped>>

\* line 529
ThreadAdvance ==
    /\ t_pc = "advance"
    /\ AdvanceRing
    /\ t_pc' = "deliver"
    /\ UNCHANGED <<net_poll, xvars, hw_next, hw_seq, hw_max, ring, machi, ifvars,
                   ctrvars, ivars, sched, status, buf, errs, length, hwlen, trim, m, t_tmp, cvars,
                   delivered, failed, nalloc, cycle, stopped>>

\* lines 531-536: the packet counter and (*sc->sc_ifp->if_input)(sc->sc_ifp, m)
ThreadDeliver ==
    /\ t_pc = "deliver"
    /\ ipackets' = ipackets + 1
    /\ delivered' = Append(delivered, [id |-> m, slot |-> buf])
    /\ m' = NoMbuf
    /\ t_pc' = "reread"
    /\ UNCHANGED <<net_poll, xvars, hwvars, machi, ifvars, ierrors, iqdrops, ivars,
                   sched, status, buf, errs, length, hwlen, trim, t_tmp, cvars, rsr_nw,
                   rsr_lastw, adv, failed, nalloc, cycle, stopped>>

\* line 538
ThreadReread ==
    /\ t_pc = "reread"
    /\ RereadStatus
    /\ UNCHANGED <<net_poll, xvars, hwvars, machi, ifvars, ctrvars, ivars, sched, m,
                   t_tmp, cvars, delivered, rsr_nw, rsr_lastw, failed, nalloc,
                   cycle, stopped>>

\* line 542, the read: GETREG(sc, MACHI_OFFSET)
ThreadReadMachi ==
    /\ t_pc = "machi_r"
    /\ t_tmp' = machi
    /\ t_pc' = "machi_w"
    /\ UNCHANGED <<net_poll, xvars, hwvars, machi, ifvars, ctrvars, ivars, sched,
                   status, buf, errs, length, hwlen, trim, m, cvars, logvars, cycle,
                   stopped>>

\* line 542, the write: SETREG(sc, MACHI_OFFSET, MACHI_IRQ_EN | ...)
ThreadWriteMachi ==
    /\ t_pc = "machi_w"
    /\ machi' = OrIrqEn(t_tmp)
    /\ t_tmp' = NoReg
    /\ t_pc' = "idle"
    /\ ThreadDone
    /\ UNCHANGED <<net_poll, xvars, hwvars, ifvars, ctrvars, ivars, sched, status,
                   buf, errs, length, hwlen, trim, m, cvars, logvars, stopped>>

Thread ==
    \/ ThreadStart \/ ThreadLoopBody \/ ThreadLoopExit \/ ThreadValidate
    \/ ThreadDiscard \/ ThreadDiscardReread \/ ThreadAllocOk
    \/ ThreadAllocFail \/ ThreadCopy \/ ThreadAdvance \/ ThreadDeliver
    \/ ThreadReread \/ ThreadReadMachi \/ ThreadWriteMachi

(* ------------------------------------------------------------------ *)
(* lre_init                                                             *)
(* ------------------------------------------------------------------ *)

cfgcore == <<net_poll, othervars, hwvars, ctrvars, ivars, sched, tvars,
             logvars, cycle>>
cfgrest == <<cfgcore, gvars>>

\* lines 281-282
InitClearRunning ==
    /\ c_pc = "init"
    /\ running' = FALSE
    /\ c_pc' = "init_set"
    /\ UNCHANGED <<cfgrest, machi, if_flags, sc_flags, sc_cap, c_ret, c_tmp,
                   stopped>>

\* line 284
InitSetRunning ==
    /\ c_pc = "init_set"
    /\ running' = TRUE
    /\ stopped' = FALSE
    /\ c_pc' = IF net_poll THEN "init_cap" ELSE "init_machi_r"
    /\ UNCHANGED <<cfgrest, machi, if_flags, sc_flags, sc_cap, c_ret, c_tmp>>

\* line 289, the read: GETREG(sc, MACHI_OFFSET)
InitReadMachi ==
    /\ c_pc = "init_machi_r"
    /\ c_tmp' = machi
    /\ c_pc' = "init_machi_w"
    /\ UNCHANGED <<cfgrest, machi, ifvars, c_ret, stopped>>

\* InitWriteMachi with ^ for |: SETREG(sc, MACHI_OFFSET, MACHI_IRQ_EN ^ ...)
InitWriteMachi_Xor ==
    /\ c_pc = "init_machi_w"
    /\ machi' = [c_tmp EXCEPT !.irq_en = ~c_tmp.irq_en]
    /\ c_tmp' = NoReg
    /\ c_pc' = "init_cap"
    /\ UNCHANGED <<cfgrest, ifvars, c_ret, stopped>>

\* line 289, the write: SETREG(sc, MACHI_OFFSET, MACHI_IRQ_EN | ...)
InitWriteMachi ==
    /\ c_pc = "init_machi_w"
    /\ machi' = OrIrqEn(c_tmp)
    /\ c_tmp' = NoReg
    /\ c_pc' = "init_cap"
    /\ UNCHANGED <<cfgrest, ifvars, c_ret, stopped>>

\* line 291, and the return to the caller
InitSetCap ==
    /\ c_pc = "init_cap"
    /\ sc_cap' = TRUE
    /\ c_pc' = c_ret
    /\ c_ret' = "idle"
    /\ UNCHANGED <<cfgrest, machi, running, if_flags, sc_flags, c_tmp,
                   stopped>>

\* the stack calls ifp->if_init (line 228)
IfInit ==
    /\ c_pc = "idle"
    /\ c_pc' = "init"
    /\ c_ret' = "idle"
    /\ UNCHANGED <<cfgrest, machi, ifvars, c_tmp, stopped>>

lre_init ==
    \/ IfInit \/ InitClearRunning \/ InitSetRunning \/ InitReadMachi
    \/ InitWriteMachi \/ InitSetCap

(* ------------------------------------------------------------------ *)
(* lre_ioctl                                                            *)
(* ------------------------------------------------------------------ *)

FlagValues == [up : BOOLEAN, promisc : BOOLEAN]

\* SIOCSIFFLAGS, lines 388-396, when the stack has stored f in ifp->if_flags
SetFlags(f) ==
    /\ if_flags' = f
    /\ IF f = sc_flags
          THEN UNCHANGED <<c_pc, c_ret, running, stopped>>
          ELSE IF f.up
             THEN /\ c_pc' = "init"
                  /\ c_ret' = "sync"
                  /\ UNCHANGED <<running, stopped>>
             ELSE /\ running' = FALSE
                  /\ stopped' = (running \/ stopped)
                  /\ c_pc' = "sync"
                  /\ UNCHANGED c_ret
    /\ UNCHANGED <<cfgcore, machi, sc_flags, sc_cap, c_tmp>>

\* SIOCSIFFLAGS
IoctlSetFlags ==
    /\ c_pc = "idle"
    /\ \E f \in FlagValues : SetFlags(f)
    /\ UNCHANGED gvars

\* line 397, and the read of lines 399/401: GETREG(sc, MACHI_OFFSET)
IoctlSyncFlags ==
    /\ c_pc = "sync"
    /\ sc_flags' = if_flags
    /\ c_tmp' = machi
    /\ c_pc' = "promisc_w"
    /\ UNCHANGED <<cfgrest, machi, running, if_flags, sc_cap, c_ret, stopped>>

\* lines 398-402, the write: SETREG(sc, MACHI_OFFSET, ...)
IoctlWritePromisc ==
    /\ c_pc = "promisc_w"
    /\ machi' = IF sc_flags.promisc THEN OrAllPkts(c_tmp)
                                    ELSE AndNotAllPkts(c_tmp)
    /\ c_tmp' = NoReg
    /\ c_pc' = "idle"
    /\ UNCHANGED <<cfgrest, ifvars, c_ret, stopped>>

\* SIOCSIFADDR for an AF_INET address, lines 373-380
IoctlSetAddr ==
    /\ c_pc = "idle"
    /\ if_flags' = [if_flags EXCEPT !.up = TRUE]
    /\ IF ~running
          THEN c_pc' = "init" /\ c_ret' = "idle"
          ELSE UNCHANGED <<c_pc, c_ret>>
    /\ UNCHANGED <<cfgrest, machi, running, sc_flags, sc_cap, c_tmp, stopped>>

\* SIOCGIFFLAGS, lines 405-410
IoctlGetFlags ==
    /\ c_pc = "idle"
    /\ sc_flags' = [sc_flags EXCEPT !.promisc = machi.allpkts]
    /\ if_flags' = sc_flags'
    /\ UNCHANGED <<cfgrest, machi, running, sc_cap, cvars, stopped>>

\* SIOCSIFCAP, lines 417-418: sc->sc_cap = ifr->ifr_reqcap
IoctlSetCap ==
    /\ c_pc = "idle"
    /\ \E c \in BOOLEAN : sc_cap' = c
    /\ UNCHANGED <<cfgrest, machi, running, if_flags, sc_flags, cvars,
                   stopped>>

lre_ioctl ==
    \/ IoctlSetFlags \/ IoctlSyncFlags \/ IoctlWritePromisc
    \/ IoctlSetAddr \/ IoctlGetFlags \/ IoctlSetCap

(* ------------------------------------------------------------------ *)
(* Callers of the configuration paths                                   *)
(* ------------------------------------------------------------------ *)

\* the interface state lre_init and SIOCSIFFLAGS act on
Snapshot == [running |-> running, machi |-> machi, sc_cap |-> sc_cap]

\* the stack calls ifp->if_init, and again as soon as it has returned
StartTwice ==
    /\ c_pc = "idle"
    /\ g_pre = NoSnap
    /\ g_pre' = Snapshot
    /\ c_pc' = "init"
    /\ c_ret' = "between"
    /\ UNCHANGED <<cfgcore, machi, ifvars, c_tmp, stopped, g_one>>

\* the first call has returned: the second call
StartAgain ==
    /\ c_pc = "between"
    /\ g_one' = Snapshot
    /\ c_pc' = "init"
    /\ c_ret' = "after"
    /\ UNCHANGED <<cfgcore, machi, ifvars, c_tmp, stopped, g_pre>>

\* the second call has returned
StartTwiceDone ==
    /\ c_pc = "after"
    /\ g_pre' = NoSnap
    /\ g_one' = NoSnap
    /\ c_pc' = "idle"
    /\ UNCHANGED <<cfgcore, machi, ifvars, c_ret, c_tmp, stopped>>

\* ifpromisc(): the stack flips IFF_PROMISC in ifp->if_flags and issues
\* SIOCSIFFLAGS
SetPromisc ==
    /\ c_pc = "idle"
    /\ g_pre = NoSnap
    /\ g_pre' = Snapshot
    /\ \E b \in BOOLEAN :
          /\ b # if_flags.promisc
          /\ SetFlags([if_flags EXCEPT !.promisc = b])
    /\ UNCHANGED g_one

\* the SIOCSIFFLAGS of ifpromisc() has returned
SetPromiscDone ==
    /\ c_pc = "idle"
    /\ g_pre # NoSnap
    /\ g_pre' = NoSnap
    /\ UNCHANGED <<cfgcore, machi, ifvars, cvars, stopped, g_one>>

\* any other request, made when none is outstanding
CfgRequest ==
    /\ g_pre = NoSnap
    /\ \/ IfInit \/ IoctlSetFlags \/ IoctlSetAddr \/ IoctlGetFlags
       \/ IoctlSetCap

(* ------------------------------------------------------------------ *)
(* lre_transmit                                                         *)
(* ------------------------------------------------------------------ *)

\* byte k of a packet filled with pattern p
Byte(p, k) == IF p = 1 THEN 16 + k ELSE 250 - 3 * k

\* The packets the stack hands to if_transmit.  m_pkthdr.len counts the
\* whole chain; m_data addresses the m_len bytes of its first mbuf.
TxPackets ==
    UNION { { [len |-> l, mlen |-> k, pat |-> p] :
                  k \in {HeadBytes, l}, p \in Patterns } : l \in 0..MaxLen }

\* the byte at m->m_data + k, where g is what lies behind the mbuf's data
MemByte(mb, k, g) == IF k < mb.mlen THEN Byte(mb.pat, k) ELSE g

\* alloc[w] for alloc = (uint64_t *)(m->m_data), little-endian, as four
\* 16-bit quarters from the least significant
MemWord(mb, w, g) ==
    [q \in 1..4 |-> MemByte(mb, 8 * w + 2 * (q - 1), g)
                    + 256 * MemByte(mb, 8 * w + 2 * (q - 1) + 1, g)]

\* line 308 in int arithmetic: ((len-1)|7)+1, where (-1|7)+1 is 0
Words(len) == IF len = 0 THEN 0 ELSE BitOr(len - 1, 7) + 1

txrest == <<net_poll, hwvars, machi, ifvars, ctrvars, ivars, sched, tvars,
            cvars, logvars, cycle, stopped, pvars, avars, gvars>>

\* IfTransmit without the test of line 303
IfTransmit_NoCheck ==
    /\ x_pc = "idle"
    /\ x_calls < MaxTx
    /\ x_calls' = x_calls + 1
    /\ tx_log' = <<>>
    /\ \E f \in TxPackets :
          /\ f.mlen <= f.len
          /\ x_m' = f
          /\ x_words' = Words(f.len)
          /\ x_i' = 0
          /\ x_pc' = "copy"
          /\ UNCHANGED x_freed
    /\ rx_m' = NoRx
    /\ UNCHANGED <<txrest, opackets, obytes>>

\* the stack calls ifp->if_transmit (line 243): lines 303-309 and i = 0
IfTransmit ==
    /\ x_pc = "idle"
    /\ x_calls < MaxTx
    /\ x_calls' = x_calls + 1
    /\ tx_log' = <<>>
    /\ \E f \in TxPackets :
          /\ f.mlen <= f.len
          /\ x_m' = f
          /\ IF ~running
                THEN /\ x_freed' = x_freed + 1
                     /\ UNCHANGED <<x_pc, x_words, x_i>>
                ELSE /\ x_words' = Words(f.len)
                     /\ x_i' = 0
                     /\ x_pc' = "copy"
                     /\ UNCHANGED x_freed
    /\ rx_m' = NoRx
    /\ UNCHANGED <<txrest, opackets, obytes>>

\* lines 310-313, one iteration: SETREG(sc, TXBUFF_OFFSET+i, alloc[i>>3])
TxWord ==
    /\ x_pc = "copy"
    /\ x_i < x_words
    /\ \E g \in StrayBytes :
          tx_log' = Append(tx_log, [reg |-> "TXBUFF", off |-> x_i,
                                    val |-> MemWord(x_m, x_i \div 8, g)])
    /\ x_i' = x_i + 8
    /\ UNCHANGED <<txrest, x_pc, x_m, x_words, opackets, obytes, x_freed,
                   x_calls, rx_m>>

\* TxLength writing the rounded byte count: SETREG(sc, TPLR_OFFSET, words)
TxLength_Rounded ==
    /\ x_pc = "copy"
    /\ x_i >= x_words
    /\ tx_log' = Append(tx_log, [reg |-> "TPLR", off |-> 0, val |-> x_words])
    /\ x_pc' = "count"
    /\ UNCHANGED <<txrest, x_m, x_i, x_words, opackets, obytes, x_freed,
                   x_calls, rx_m>>

\* line 310 with i >= words, then line 315: SETREG(sc, TPLR_OFFSET, len)
TxLength ==
    /\ x_pc = "copy"
    /\ x_i >= x_words
    /\ tx_log' = Append(tx_log, [reg |-> "TPLR", off |-> 0, val |-> x_m.len])
    /\ x_pc' = "count"
    /\ UNCHANGED <<txrest, x_m, x_i, x_words, opackets, obytes, x_freed,
                   x_calls, rx_m>>

\* lines 319-324: the counters, m_freem(m) and the return
TxCount ==
    /\ x_pc = "count"
    /\ opackets' = opackets + 1
    /\ obytes' = obytes + x_m.len
    /\ x_freed' = x_freed + 1
    /\ x_i' = 0
    /\ x_words' = 0
    /\ x_pc' = "idle"
    /\ UNCHANGED <<txrest, x_m, tx_log, x_calls, rx_m>>

lre_transmit == IfTransmit \/ TxWord \/ TxLength \/ TxCount

(* ------------------------------------------------------------------ *)
(* The copy of lre_rx_thread, on the bytes of a frame                   *)
(* ------------------------------------------------------------------ *)

\* line 522 in uint32_t arithmetic: rnd = ((length-1)|7)+1
Rnd(len) ==
    LET y == Sub32(len, 1)
        low == BitOr(y[2], 7) + 1
    IN  IF low = 65536 THEN <<(y[1] + 1) % 65536, 0>> ELSE <<y[1], low>>

\* line 520, from the base of the receive-buffer window: (buf&7)<<11
SlotStart(b) == Shl(BitAnd(b, 7), 11)

\* line 520: the distance from one slot's buffer to the next, 1<<11
SlotStride == Shl(1, 11)

\* lines 518-527: the bytes of the cluster up to the end of the last word
\* the copy loop stores, m_data having moved up by ETHER_ALIGN
ClusterBytes(len) == ETHER_ALIGN + Rnd(len)[2]

\* lines 520-527: the bytes of the receive-buffer window the copy loop
\* reads, counted from start
WindowBytes(len) == Rnd(len)[2]

\* byte j of a 64-bit word held as four 16-bit quarters
WordByte(w, j) ==
    IF j % 2 = 0 THEN w[(j \div 2) + 1] % 256 ELSE w[(j \div 2) + 1] \div 256

ZeroWord == [q \in 1..4 |-> 0]

\* the word the transmit-buffer window holds at offset off after the writes
\* of log
TxWindow(log, off) ==
    LET at == { i \in 1..Len(log) :
                  log[i].reg = "TXBUFF" /\ log[i].off = off }
    IN  IF at = {} THEN ZeroWord
        ELSE log[CHOOSE i \in at : \A j \in at : j <= i].val

\* GETREG(sc, RXBUFF_OFFSET + addr) when the transmit-buffer window is
\* presented in the buffer of slot s
RxWindow(s, addr) ==
    IF addr \div 2048 = s % RingSlots THEN TxWindow(tx_log, addr % 2048)
    ELSE ZeroWord

\* lines 518-527: the bytes at m->m_data after the copy loop
RxCopy(s, b, len) ==
    LET rnd == Rnd(len)[2]
        start == SlotStart(b)
        alloc == [w \in 0..((rnd \div 8) - 1) |-> RxWindow(s, start + 8 * w)]
    IN  [k \in 1..rnd |-> WordByte(alloc[(k - 1) \div 8], (k - 1) % 8)]

\* the value the last lre_transmit call wrote to TPLR
LastTplr == (SelectSeq(tx_log, LAMBDA e : e.reg = "TPLR"))[1].val

\* The frame lre_transmit sent comes back in slot s: RPLR reads as the
\* length written to TPLR, RBAD as 0, sc_cap is clear; lines 494-532.
RxLoopback ==
    /\ x_pc = "idle"
    /\ rx_m.of # x_calls
    /\ \E i \in 1..Len(tx_log) : tx_log[i].reg = "TPLR"
    /\ \E s \in RxStartSlots :
          LET len == FrameLength(LastTplr, FALSE)
          IN  rx_m' = IF Reject(len, s, 0)
                         THEN [of |-> x_calls, ok |-> FALSE, len |-> 0,
                               data |-> <<>>]
                         ELSE [of |-> x_calls, ok |-> TRUE, len |-> len[2],
                               data |-> RxCopy(s, s, len)]
    /\ UNCHANGED <<txrest, txvars>>

(* ------------------------------------------------------------------ *)
(* net_timeout (LOWRISC_NET_POLL)                                       *)
(* ------------------------------------------------------------------ *)

prest == <<net_poll, hwvars, machi, ifvars, ctrvars, ivars, sched, tvars,
           cvars, logvars, cycle, stopped, txvars, rx_m, avars, gvars>>

\* The callout fires, lines 153-157: with IFF_DRV_RUNNING set it calls
\* lre_rx_intr, which under LOWRISC_NET_POLL is the read of line 468 and a
\* return value that net_timeout drops.
NetTimeout ==
    /\ net_poll
    /\ p_pc = "idle"
    /\ p_saw' = IF running THEN ReadRSR ELSE 0
    /\ p_pc' = "rearm"
    /\ UNCHANGED prest

\* line 159: callout_reset(&net_callout, polltime, net_timeout, arg)
NetTimeoutRearm ==
    /\ p_pc = "rearm"
    /\ p_saw' = 0
    /\ p_pc' = "idle"
    /\ UNCHANGED prest

net_timeout == NetTimeout \/ NetTimeoutRearm

(* ------------------------------------------------------------------ *)
(* Specification                                                        *)
(* ------------------------------------------------------------------ *)

\* the receive engine and start
InitRx == InitFrom(RxStartSlots, MaxFrames)

NextRx == HwReceive \/ Intr \/ Thread \/ lre_init

SpecRx == InitRx /\ [][NextRx]_vars

\* the receive engine, start and the configuration requests
Init == InitFrom(StartSlots, CfgFrames)

Next == HwReceive \/ Intr \/ Thread \/ lre_init \/ lre_ioctl

Spec == Init /\ [][Next]_vars

\* a build with LOWRISC_NET_POLL: the MACHI accesses of lines 289, 471 and
\* 542 are compiled out, the callout of lines 245-248 runs net_timeout
InitPoll == AfterAttach(TRUE, {15}, CfgFrames)

NextPoll ==
    \/ HwReceive
    \/ IntrEnter \/ IntrReturn
    \/ ThreadStart \/ ThreadLoopBody \/ ThreadLoopExit \/ ThreadValidate
    \/ ThreadDiscard \/ ThreadDiscardReread \/ ThreadAllocOk
    \/ ThreadAllocFail \/ ThreadCopy \/ ThreadAdvance \/ ThreadDeliver
    \/ ThreadReread
    \/ IfInit \/ InitClearRunning \/ InitSetRunning \/ InitSetCap
    \/ IoctlSetFlags \/ IoctlSyncFlags \/ IoctlWritePromisc
    \/ net_timeout

SpecPoll == InitPoll /\ [][NextPoll]_vars

\* Progress of the receive engine while SIOCSIFFLAGS starts, stops and
\* reconfigures the interface, when m_getcl never fails.  The interrupt
\* controller delivers an asserted interrupt, the scheduler runs a
\* scheduled interrupt thread, and a handler that has been entered runs to
\* its end; the hardware and the callers of if_ioctl are under no
\* obligation.
InitLive == AfterAttach(FALSE, {15}, LiveFrames)

ThreadLive ==
    \/ ThreadStart \/ ThreadLoopBody \/ ThreadLoopExit \/ ThreadValidate
    \/ ThreadDiscard \/ ThreadDiscardReread \/ ThreadAllocOk
    \/ ThreadCopy \/ ThreadAdvance \/ ThreadDeliver
    \/ ThreadReread \/ ThreadReadMachi \/ ThreadWriteMachi

CfgRun ==
    \/ InitClearRunning \/ InitSetRunning \/ InitReadMachi
    \/ InitWriteMachi \/ InitSetCap \/ IoctlSyncFlags \/ IoctlWritePromisc

NextLive ==
    HwReceive \/ Intr \/ ThreadLive \/ IoctlSetFlags \/ CfgRun

SpecLive ==
    /\ InitLive /\ [][NextLive]_vars
    /\ WF_vars(Intr) /\ WF_vars(ThreadLive) /\ WF_vars(CfgRun)

\* lre_attach from its discard loop on, and the receive engine it installs
NextAttach == HwReceive \/ lre_attach \/ Intr \/ Thread

SpecAttach == InitAttach /\ [][NextAttach]_vars

\* the configuration context alone: requests made one after another
InitCfg == InitFrom({0}, 0)

NextCfg ==
    \/ CfgRequest \/ CfgRun
    \/ StartTwice \/ StartAgain \/ StartTwiceDone
    \/ SetPromisc \/ SetPromiscDone

SpecCfg == InitCfg /\ [][NextCfg]_vars

\* transmit, with start and the loop back into the receive copy
InitTx == InitFrom({0}, 0)

NextTx == lre_transmit \/ RxLoopback \/ lre_init

SpecTx == InitTx /\ [][NextTx]_vars

(* ------------------------------------------------------------------ *)
(* Vocabulary of the properties                                         *)
(* ------------------------------------------------------------------ *)

\* bit k of the register value e is set
Bit(e, k) == (e \div Pow2(k)) % 2 = 1

\* max_frame_bytes
MaxFrameBytes == MCLBYTES - ETHER_ALIGN

\* the slot index and the slot position lre_rx_thread last observed
ObservedSlot == status % 16
SlotPos == buf % RingSlots

\* this step is a step of lre_rx_thread, of lre_rx_intr, of the
\* configuration context
ThreadStep == t_pc' # t_pc
IntrStep == i_pc' # i_pc
CfgStep == c_pc' # c_pc

\* this step is lre_rx_thread reading the receive-status register
ThreadReadsRSR == ThreadStep /\ t_pc \in {"idle", "discard_rd", "reread"}

\* this step writes the receive-status register
WritesRSR == rsr_nw' # rsr_nw

\* this step calls if_input
Delivers == delivered' # delivered

\* the descriptor lre_rx_thread holds fails validation
BadDescriptor ==
    \/ length[1] # 0
    \/ length[2] > MaxFrameBytes
    \/ Bit(errs, SlotPos)
    \/ Bit(errs, SlotPos + 8)

\* what every write of receive-status is: the observed slot plus one, one
\* past the slot of the write before it
RingWrite ==
    WritesRSR =>
        /\ ThreadStep
        /\ rsr_nw' = rsr_nw + 1
        /\ rsr_lastw' = ObservedSlot + 1
        /\ hw_first' = (hw_first + 1) % 16
        /\ rsr_nw > 0 =>
              rsr_lastw' % RingSlots = ((rsr_lastw % RingSlots) + 1) % RingSlots

(* ------------------------------------------------------------------ *)
(* C1  Ring monotonicity                                                *)
(* ------------------------------------------------------------------ *)

\* C1 as stated: every write of receive-status is the observed slot index
\* plus one, the written slot index increases by one (mod ring size), and
\* every slot lre_rx_thread observed as pending has been advanced by exactly
\* one receive-status write when lre_rx_thread reads receive-status next.
C1_RingMonotonicity_Original ==
    [][ /\ RingWrite
        /\ (ThreadReadsRSR /\ RecvDone(status)) => adv = 1 ]_vars

\* C1, amended: as above, except that a slot observed as pending whose buffer
\* allocation failed has been advanced by no write when receive-status is
\* read next (by the next activation of lre_rx_thread).
C1_RingMonotonicity ==
    [][ /\ RingWrite
        /\ (ThreadReadsRSR /\ RecvDone(status)) =>
              /\ adv = (IF failed THEN 0 ELSE 1)
              /\ failed => t_pc = "idle"
              /\ ~failed => hw_first = (ObservedSlot + 1) % 16
              /\ failed => hw_first = ObservedSlot ]_vars

\* two slots were advanced, the second read after the first write, and an
\* allocation failure lies between
C1_Witness ==
    /\ rsr_nw = 2
    /\ iqdrops = 1
    /\ t_pc = "loop"
    /\ adv = 0

(* ------------------------------------------------------------------ *)
(* C2  No double delivery                                               *)
(* ------------------------------------------------------------------ *)

NoDuplicates(q) ==
    \A i, j \in 1..Len(q) : i # j => q[i].id # q[j].id

\* writes of receive-status that belong to the slots handled so far
WritesAccounted ==
    rsr_nw = Len(delivered) + ierrors
             + (IF t_pc = "deliver" THEN 1 ELSE 0)
             - (IF t_pc = "discard" THEN 1 ELSE 0)

\* C2: every frame handed to if_input is a frame the hardware completed, its
\* slot was advanced by exactly one receive-status write (slot + 1) that was
\* made before the delivery call, and no frame is delivered twice.
C2_NoDoubleDelivery ==
    /\ [](NoDuplicates(delivered) /\ WritesAccounted)
    /\ [][ Delivers =>
              /\ ThreadStep
              /\ delivered' = Append(delivered, [id |-> m, slot |-> buf])
              /\ m \in 1..hw_seq
              /\ adv = 1
              /\ rsr_lastw = buf + 1
              /\ hw_first = (buf + 1) % 16
              /\ UNCHANGED <<hw_first, rsr_nw>> ]_vars

\* two frames were delivered
C2_Witness ==
    /\ Len(delivered) = 2
    /\ rsr_nw = 2
    /\ ierrors = 0

(* ------------------------------------------------------------------ *)
(* C3  Validation                                                       *)
(* ------------------------------------------------------------------ *)

\* this step is the test of line 501
Validates == ThreadStep /\ t_pc = "validate"

\* C3 as stated: a frame is accepted iff its length is at most
\* max_frame_bytes and (BASE_ERR | (BASE_ERR << s)) & E is 0, BASE_ERR
\* being the pattern 0x101 of the code.
C3_Validation_Original ==
    [][ Validates =>
          (t_pc' = "alloc" <=>
              /\ ~Gt32(length, MaxFrameBytes)
              /\ BitAnd(BitOr(ERR_PATTERN, Shl(ERR_PATTERN, SlotPos)),
                        errs) = 0) ]_vars

\* C3, amended: a frame is accepted iff its length is at most
\* max_frame_bytes and (0x101 << s) & E is 0, that is iff neither bit s nor
\* bit s + 8 of E is set; otherwise it is rejected.
C3_Validation ==
    [][ Validates =>
          /\ t_pc' \in {"alloc", "discard"}
          /\ t_pc' = "alloc" <=>
                /\ length[1] = 0
                /\ length[2] <= MaxFrameBytes
                /\ ~Bit(errs, SlotPos)
                /\ ~Bit(errs, SlotPos + 8) ]_vars

\* a frame in a slot other than 0 was accepted with bit 0 of the error
\* register set, and one was rejected for the bit of its own slot
C3_Witness ==
    \/ t_pc = "alloc" /\ errs = 1 /\ SlotPos = 3
    \/ t_pc = "discard" /\ errs = 2048 /\ SlotPos = 3 /\ length = U32(60)

(* ------------------------------------------------------------------ *)
(* C4  A bad descriptor does not stall the ring                         *)
(* ------------------------------------------------------------------ *)

\* C4: for a pending slot that fails validation the worker adds one to the
\* input-error counter, writes slot + 1 to receive-status, allocates and
\* delivers nothing, reads receive-status again and goes on with the loop.
C4_BadDescriptor ==
    [][ /\ (Validates /\ BadDescriptor) =>
              /\ t_pc' = "discard"
              /\ ierrors' = ierrors + 1
              /\ UNCHANGED <<nalloc, m, delivered, ipackets, iqdrops, rsr_nw>>
        /\ (ThreadStep /\ t_pc = "discard") =>
              /\ t_pc' = "discard_rd"
              /\ rsr_nw' = rsr_nw + 1
              /\ rsr_lastw' = ObservedSlot + 1
              /\ hw_first' = (ObservedSlot + 1) % 16
              /\ UNCHANGED <<nalloc, m, delivered, ctrvars>>
        /\ (ThreadStep /\ t_pc = "discard_rd") =>
              /\ t_pc' = "loop"
              /\ (status' % 16) = hw_first
              /\ RecvDone(status') <=> hw_next # hw_first
              /\ UNCHANGED <<nalloc, m, delivered, ctrvars, rsr_nw>> ]_vars

\* two bad slots in a row were discarded and the loop goes on
C4_Witness ==
    /\ ierrors = 2
    /\ rsr_nw = 2
    /\ nalloc = 0
    /\ delivered = <<>>
    /\ t_pc = "loop"

(* ------------------------------------------------------------------ *)
(* C5  Allocation failure                                               *)
(* ------------------------------------------------------------------ *)

\* the slot lre_rx_thread last observed is still pending in the device
StillPending == hw_first = ObservedSlot /\ hw_next # hw_first

\* C5: when the allocation fails the worker adds one to the drop counter
\* and returns at once: it does not write receive-status (the slot stays
\* pending), delivers nothing and does not write the control register, whose
\* receive-interrupt-enable bit only start sets afterwards.
C5_AllocFailure ==
    /\ [][ (ThreadStep /\ t_pc = "alloc") =>
              /\ t_pc' \in {"copy", "idle"}
              /\ t_pc' = "idle" =>
                    /\ iqdrops' = iqdrops + 1
                    /\ StillPending'
                    /\ UNCHANGED <<hwvars, machi, rsr_nw, delivered, nalloc,
                                   ierrors, ipackets>> ]_vars
    /\ [][ (failed /\ t_pc = "idle" /\ ~machi.irq_en /\ machi'.irq_en) =>
              c_pc = "init_machi_w" ]_vars
    /\ [](failed /\ t_pc = "idle" => StillPending)

\* the activation ended on a failed allocation with the interrupt masked
C5_Witness ==
    /\ failed
    /\ t_pc = "idle"
    /\ iqdrops = 1
    /\ ~machi.irq_en
    /\ ~sched
    /\ i_pc = "idle"

(* ------------------------------------------------------------------ *)
(* C6  Draining to Idle                                                 *)
(* ------------------------------------------------------------------ *)

\* C6: an activation that leaves the loop because its last status read has
\* the done bit clear writes the control register with the
\* receive-interrupt-enable bit set; the worker writes the control register
\* at no other point, so never while its last status read reports a
\* completed slot.
C6_DrainToIdle ==
    /\ [][ (ThreadStep /\ t_pc = "loop" /\ ~RecvDone(status)) =>
              t_pc' = "machi_r" ]_vars
    /\ [][ (ThreadStep /\ t_pc' = "idle") =>
              IF RecvDone(status)
                 THEN UNCHANGED machi
                 ELSE t_pc = "machi_w" /\ machi'.irq_en ]_vars
    /\ [][ (ThreadStep /\ machi' # machi) =>
              ~RecvDone(status) /\ t_pc = "machi_w" ]_vars
    /\ [](t_pc \in {"machi_r", "machi_w"} => ~RecvDone(status))

\* an activation drained two slots and re-enabled the interrupt
C6_Witness ==
    /\ t_pc = "idle"
    /\ rsr_nw = 2
    /\ ~RecvDone(status)
    /\ machi.irq_en
    /\ ~failed

(* ------------------------------------------------------------------ *)
(* C7  Fast-path discipline                                             *)
(* ------------------------------------------------------------------ *)

MaskAccesses == <<"R:RSR", "R:MACHI", "W:MACHI">>

\* C7: lre_rx_intr reads receive-status, clears the
\* receive-interrupt-enable bit of the control register and only then asks
\* for the worker; it allocates nothing, delivers nothing, reads no receive
\* buffer and does not write receive-status.
C7_FastPath ==
    /\ [][ IntrStep =>
              /\ UNCHANGED <<hwvars, ctrvars, tvars, logvars>>
              /\ machi' # machi => ~machi'.irq_en
              /\ sched' # sched => i_acc = MaskAccesses ]_vars
    /\ [][ (sched' /\ ~sched) => IntrStep /\ i_acc = MaskAccesses ]_vars
    /\ [](i_pc = "return" => i_acc = MaskAccesses)

\* the handler has masked the interrupt and has not asked for the worker yet
C7_Witness ==
    /\ i_pc = "return"
    /\ ~machi.irq_en
    /\ ~sched
    /\ t_pc = "idle"

(* ------------------------------------------------------------------ *)
(* C8  Mask discipline                                                  *)
(* ------------------------------------------------------------------ *)

\* C8: from the mask by lre_rx_intr until the activation of the worker it
\* asked for has ended, the receive-interrupt-enable bit is clear.
C8_MaskDiscipline == cycle => ~machi.irq_en

(* ------------------------------------------------------------------ *)
(* C9  No lost update on the control register                           *)
(* ------------------------------------------------------------------ *)

\* C9: a write of the control register that toggles the
\* receive-interrupt-enable bit leaves the accept-all-packets bit as the
\* register holds it, and a write that sets the accept-all-packets bit
\* leaves the receive-interrupt-enable bit as the register holds it.
C9_NoLostUpdate ==
    [][ /\ (IntrStep /\ i_pc = "machi_w") => machi'.allpkts = machi.allpkts
        /\ (ThreadStep /\ t_pc = "machi_w") => machi'.allpkts = machi.allpkts
        /\ (CfgStep /\ c_pc = "init_machi_w") =>
              machi'.allpkts = machi.allpkts
        /\ (CfgStep /\ c_pc = "promisc_w") =>
              machi'.irq_en = machi.irq_en ]_vars

(* ------------------------------------------------------------------ *)
(* C10  Stop prevents delivery                                          *)
(* ------------------------------------------------------------------ *)

\* C10: no frame is handed to if_input while the running flag is clear
\* because stop cleared it.
C10_StopPreventsDelivery == [][ Delivers => ~stopped ]_vars

(* ------------------------------------------------------------------ *)
(* Transmit                                                             *)
(* ------------------------------------------------------------------ *)

\* n rounded up to a multiple of 8
RoundUp8(n) == ((n + 7) \div 8) * 8

\* this step is a call of lre_transmit
TransmitCalled == x_calls' # x_calls

\* the register writes of an lre_transmit call for a packet of l bytes:
\* the words of the window in ascending order from offset 0, then TPLR
WordsThenLength(log, l) ==
    LET n == RoundUp8(l) \div 8
    IN  /\ Len(log) = n + 1
        /\ \A w \in 1..n : log[w].reg = "TXBUFF" /\ log[w].off = 8 * (w - 1)
        /\ log[n + 1] = [reg |-> "TPLR", off |-> 0, val |-> l]

\* C11: lre_transmit called while IFF_DRV_RUNNING is clear frees the
\* packet and returns: it writes neither the transmit-buffer window nor
\* TPLR and leaves OPACKETS and OBYTES as they were.
C11_DropOnStopped ==
    [][(TransmitCalled /\ ~running) =>
          /\ x_freed' = x_freed + 1
          /\ tx_log' = <<>>
          /\ x_pc' = "idle"
          /\ opackets' = opackets
          /\ obytes' = obytes]_vars

\* a packet of 17 bytes was dropped by a call made before start
C11_Witness ==
    /\ ~running
    /\ x_pc = "idle"
    /\ x_calls = 1 /\ x_freed = 1
    /\ x_m.len = 17
    /\ tx_log = <<>>
    /\ opackets = 0 /\ obytes = 0

\* C12: a call of lre_transmit that found the interface running has, when
\* it returns, written round_up(L, 8)/8 words to the transmit-buffer
\* window at offsets 0, 8, 16, ... and after them the length L to TPLR,
\* once; its last step adds 1 to OPACKETS and L to OBYTES and frees the
\* packet.
C12_TransmitOrdering ==
    [][(x_pc = "count" /\ x_pc' = "idle") =>
          /\ WordsThenLength(tx_log', x_m.len)
          /\ opackets' = opackets + 1
          /\ obytes' = obytes + x_m.len
          /\ x_freed' = x_freed + 1]_vars

\* a packet of 17 bytes has gone out as three words and its length
C12_Witness ==
    /\ x_pc = "idle"
    /\ x_m.len = 17
    /\ Len(tx_log) = 4
    /\ tx_log[4].reg = "TPLR"
    /\ opackets = 1 /\ obytes = 17

(* ------------------------------------------------------------------ *)
(* C13  Polling                                                         *)
(* ------------------------------------------------------------------ *)

\* this step is the callout running net_timeout
PollTick == p_pc = "idle" /\ p_pc' = "rearm"

\* C13: under LOWRISC_NET_POLL a tick of the callout that finds the
\* interface running and a slot completed gets the drain of
\* lre_rx_thread going, and no step changes the
\* receive-interrupt-enable bit.
C13_PollingDrains ==
    [][ /\ (PollTick /\ running /\ Pending > 0) =>
              (sched' \/ t_pc' # "idle")
        /\ machi'.irq_en = machi.irq_en ]_vars

(* ------------------------------------------------------------------ *)
(* C14  Drain liveness                                                  *)
(* ------------------------------------------------------------------ *)

\* no handler is running or due to run, and none will be: the device does
\* not raise its interrupt
Quiescent ==
    /\ t_pc = "idle" /\ ~sched
    /\ i_pc = "idle" /\ ~IrqLine
    /\ c_pc = "idle"

\* C14: when m_getcl always succeeds and the hardware completes finitely
\* many slots, every slot completed while the interface is running is
\* eventually advanced and the interrupt thread ends with the ring empty
\* and the receive-interrupt-enable bit set.  Stated on the states a run
\* can end in: the handlers never all come to rest with the interface
\* running and a completed slot left in the ring.
C14_DrainLiveness == ~(Quiescent /\ running /\ Pending > 0)

(* ------------------------------------------------------------------ *)
(* C15  Round-trip copy                                                 *)
(* ------------------------------------------------------------------ *)

\* the packet of the last lre_transmit call has come back
LoopedBack == x_calls > 0 /\ rx_m.of = x_calls

\* C15: the words lre_transmit writes for a packet of L bytes, presented
\* in the receive buffer of a slot with length L, no error bit and
\* sc_cap clear, are copied by lre_rx_thread so that the mbuf holds
\* length L and its first L bytes are the bytes of the packet.
C15_RoundTrip ==
    LoopedBack =>
        /\ rx_m.ok
        /\ rx_m.len = x_m.len
        /\ \A k \in 1..x_m.len : rx_m.data[k] = Byte(x_m.pat, k - 1)

(* ------------------------------------------------------------------ *)
(* C16  start is idempotent                                             *)
(* ------------------------------------------------------------------ *)

\* what one call of lre_init leaves of the interface state pre
Started(pre) ==
    /\ running
    /\ machi = OrIrqEn(pre.machi)
    /\ sc_cap

\* C16: after lre_init has run twice in a row the running flag, MACHI and
\* sc_cap are what the first call left: IFF_DRV_RUNNING set,
\* MACHI_IRQ_EN set and every other bit of MACHI as before the first
\* call, IFCAP_RXCSUM set.
C16_StartIdempotent ==
    /\ c_pc \in {"between", "after"} => Started(g_pre)
    /\ c_pc = "after" => Snapshot = g_one

\* the second call has returned on an interface that was stopped, masked
\* and promiscuous before the first
C16_Witness ==
    /\ c_pc = "after"
    /\ ~g_pre.running /\ ~g_pre.machi.irq_en /\ ~g_pre.sc_cap
    /\ g_pre.machi.allpkts
    /\ g_one.running

(* ------------------------------------------------------------------ *)
(* C17  set_promiscuous                                                 *)
(* ------------------------------------------------------------------ *)

\* C17: when the SIOCSIFFLAGS that changes IFF_PROMISC has returned, the
\* accept-all-packets bit of MACHI is as requested and the running flag,
\* MACHI_IRQ_EN, the MAC-address bits of MACHI and sc_cap are what they
\* were before it.
C17_PromiscOnly ==
    [][(c_pc = "promisc_w" /\ c_pc' = "idle" /\ g_pre # NoSnap) =>
          /\ machi'.allpkts = if_flags.promisc
          /\ running' = g_pre.running
          /\ machi'.irq_en = g_pre.machi.irq_en
          /\ machi'.mac = g_pre.machi.mac
          /\ sc_cap' = g_pre.sc_cap]_vars

(* ------------------------------------------------------------------ *)
(* C18  Receive-buffer bound                                            *)
(* ------------------------------------------------------------------ *)

\* C18: when the copy loop has run for an accepted frame, what it wrote,
\* the alignment pad and round_up(length, 8) bytes, lies within the
\* cluster of MCLBYTES bytes, and what it read lies within the slot's
\* own buffer in the receive window.
C18_BufferBound ==
    t_pc = "advance" =>
        /\ Rnd(length)[1] = 0
        /\ ClusterBytes(length) <= MCLBYTES
        /\ WindowBytes(length) <= SlotStride

(* ------------------------------------------------------------------ *)
(* C19  Trailer subtraction                                             *)
(* ------------------------------------------------------------------ *)

\* C19: with IFCAP_RXCSUM set, a slot whose masked RPLR value is below 4
\* yields a length that has wrapped above max_frame_bytes and is
\* rejected; the length of every frame handed to if_input is the masked
\* RPLR value less 4 when the trailer was subtracted, the masked RPLR
\* value when it was not, and at most max_frame_bytes.
C19_TrailerSafe ==
    [][ /\ (Validates /\ trim /\ hwlen < 4) =>
              /\ (length[1] > 0 \/ length[2] > MaxFrameBytes)
              /\ t_pc' = "discard"
              /\ ierrors' = ierrors + 1
        /\ Delivers =>
              /\ length[1] = 0
              /\ length[2] = hwlen - (IF trim THEN 4 ELSE 0)
              /\ length[2] <= MaxFrameBytes ]_vars

\* a slot whose RPLR read as 3 with IFCAP_RXCSUM set, and no error bit,
\* has been rejected on its wrapped length 2^32 - 1
C19_Witness ==
    /\ t_pc = "discard"
    /\ trim /\ hwlen = 3
    /\ length = <<65535, 65535>>
    /\ errs = 0
    /\ ierrors = 1

(* ------------------------------------------------------------------ *)
(* C20  Attach discards the backlog                                     *)
(* ------------------------------------------------------------------ *)

\* this step is a step of lre_attach
AttachStep == a_pc' # a_pc

\* no cluster allocated, no frame copied or delivered, no counter moved
Untouched ==
    /\ nalloc = 0 /\ m = NoMbuf /\ delivered = <<>>
    /\ ierrors = 0 /\ iqdrops = 0 /\ ipackets = 0

\* C20: until lre_attach installs the interrupt handler, each pass of its
\* loop that finds the done bit set writes the slot it read plus one to
\* RSR and nothing is allocated, copied, counted or delivered; the loop is
\* left only on a status with the done bit clear.
C20_AttachDiscards ==
    [][ /\ a_pc' # "done" => Untouched'
        /\ (AttachStep /\ a_pc = "loop" /\ RecvDone(a_status)) =>
              /\ rsr_nw' = rsr_nw + 1
              /\ rsr_lastw' = (a_status % 16) + 1
              /\ a_pc' = "reread"
        /\ (AttachStep /\ a_pc' = "done") =>
              /\ ~RecvDone(a_status)
              /\ rsr_nw' = rsr_nw
              /\ Untouched' ]_vars

\* the handler is installed after a backlog of three slots that began at
\* slot 15 was discarded
C20_Witness ==
    /\ a_pc = "done"
    /\ rsr_nw = 3
    /\ rsr_lastw = 2
    /\ hw_first = 2
    /\ Untouched

====
